---- MODULE Spec2Model ----
(***************************************************************************)
(* Model of the ULP validator's processing engine (src/main.py):           *)
(* ULPValidator.validate_line, and FileProcessor.process_files running on  *)
(* a worker thread while another thread calls pause(), resume() and stop().*)
(* Text is modelled character by character: a file is a sequence of        *)
(* one-character strings, a line is what Python's file iteration yields.   *)
(***************************************************************************)
EXTENDS Naturals, Sequences, FiniteSets

(* ---------------------------- bounds ----------------------------------- *)

\* Most lines in the target file.
MaxTargetLines == 2

\* Most runs started one after the other over the same files.
MaxRuns == 2

\* Longest line given to validate_line on its own.
MaxLineLen == 5

\* Most lines in a target file long enough to reach the progress throttle.
MaxLongLines == 101

(* ---------------------------- text ------------------------------------- *)

NL == "\n"

\* Characters str.strip() removes (those of them the model's files hold).
Whitespace == {" ", NL}

\* The characters of the lines given to validate_line on its own.
LineChars == {"a", ":", " ", NL}

Strings(n) == UNION { [1..k -> LineChars] : k \in 0..n }

\* The bodies (the text before the newline) of the target file's lines: an
\* empty line, a blank one, one colon, two colons, the same record with
\* blanks around it, and a record whose third part holds a colon.
LineBodies ==
    { <<>>,
      <<" ">>,
      <<"a", ":", "b">>,
      <<"a", ":", "b", ":", "c">>,
      <<" ", "a", ":", "b", ":", "c", " ">>,
      <<"a", ":", "b", ":", "c", ":", "d">> }

RECURSIVE JoinLines(_)
\* The content of a file whose lines have the given bodies, each ended by NL.
JoinLines(bodies) ==
    IF bodies = <<>> THEN <<>>
    ELSE Head(bodies) \o <<NL>> \o JoinLines(Tail(bodies))

TargetFiles ==
    { JoinLines(ls) : ls \in UNION { [1..k -> LineBodies] : k \in 0..MaxTargetLines } }

\* The master file before the run, when there is one: empty, a blank line
\* followed by a line of two parts, a record, a record with blanks around
\* it, and a record with no newline after it.
MasterFiles ==
    { <<>>,
      <<NL, "a", ":", "b", NL>>,
      <<"a", ":", "b", ":", "c", NL>>,
      <<" ", "a", ":", "b", ":", "c", " ", NL>>,
      <<"a", ":", "b", ":", "c">> }

\* The positions at which a line of the file ends: each newline, and the
\* last character when the file does not end with a newline.
LineEnds(content) ==
    { i \in 1..Len(content) : content[i] = NL \/ i = Len(content) }

\* Iterating over a text file: each line up to and including its newline,
\* the last line as it is when the file does not end with a newline.
ReadLines(content) ==
    [k \in 1..Cardinality(LineEnds(content)) |->
        LET ends == LineEnds(content)
            upto(n) == IF n = 0 THEN 0
                       ELSE CHOOSE p \in ends : Cardinality({ q \in ends : q <= p }) = n
        IN SubSeq(content, upto(k - 1) + 1, upto(k))]

RECURSIVE LStrip(_)
LStrip(s) ==
    IF s # <<>> /\ Head(s) \in Whitespace THEN LStrip(Tail(s)) ELSE s

RECURSIVE RStrip(_)
RStrip(s) ==
    IF s # <<>> /\ s[Len(s)] \in Whitespace THEN RStrip(SubSeq(s, 1, Len(s) - 1)) ELSE s

\* str.strip(): leading and trailing whitespace removed.
Strip(s) == RStrip(LStrip(s))

\* A split that cuts at every separator, whatever the cap.
SplitUncapped(s, sep, maxsplit) ==
    LET cuts == { i \in 1..Len(s) : s[i] = sep }
        cut(k) == IF k = 0 THEN 0
                  ELSE IF k > Cardinality(cuts) THEN Len(s) + 1
                  ELSE CHOOSE p \in cuts : Cardinality({ q \in cuts : q <= p }) = k
    IN [k \in 1..(Cardinality(cuts) + 1) |-> SubSeq(s, cut(k - 1) + 1, cut(k) - 1)]

\* str.split(sep, maxsplit): the string is cut at its leftmost maxsplit
\* separators; the parts are what lies between the cuts.
Split(s, sep, maxsplit) ==
    LET hits == { i \in 1..Len(s) : s[i] = sep }
        cuts == { i \in hits : Cardinality({ j \in hits : j < i }) < maxsplit }
        cut(k) == IF k = 0 THEN 0
                  ELSE IF k > Cardinality(cuts) THEN Len(s) + 1
                  ELSE CHOOSE p \in cuts : Cardinality({ q \in cuts : q <= p }) = k
    IN [k \in 1..(Cardinality(cuts) + 1) |-> SubSeq(s, cut(k - 1) + 1, cut(k) - 1)]

(* ---------------------------- ULPValidator ----------------------------- *)

\* Number of parts a valid line splits into, and the split's cap.
RequiredParts == 3
MaxSplit == 2

validate_line(line) ==
    LET l == Strip(line) IN
    IF l = <<>> THEN [ok |-> FALSE, reason |-> "Empty Line", line |-> l]
    ELSE IF Len(Split(l, ":", MaxSplit)) # RequiredParts
         THEN [ok |-> FALSE, reason |-> "Not Enough Parts", line |-> l]
         ELSE [ok |-> TRUE, reason |-> "Valid", line |-> l]

(* ---------------------------- state ------------------------------------ *)

\* The rejection reasons, in the order initialize_logs opens their logs.
LogReasons == <<"Not Enough Parts", "Empty Line", "Duplicate">>

Reasons == { LogReasons[i] : i \in 1..Len(LogReasons) }

\* Progress is published every ProgressEvery lines.
ProgressEvery == 100

VARIABLES
    target,           \* content of the target file
    masterExists,     \* os.path.exists(master_file)
    masterContent,    \* content of the master file
    logText,          \* per reason, the entries written to its log
    is_running, is_paused,
    lock,             \* FileProcessor.lock: "free", "worker" while the worker holds it,
                      \* "caller" while toggle_pause holds it
    total_lines, processed_lines, valid_lines, rejected_lines,
    log_files,        \* per reason, the log stream: "none", "open", "closed"
    master_fd,        \* the append handle: "none", "open", "closed"
    existing_lines,   \* the dedup set
    line_num,
    pc,               \* the worker's position in process_files
    cmd, cmdPc,       \* the command the controlling thread is in, and where: "idle",
                      \* "waiting" at a with-lock statement, "locked" inside toggle_pause
    signals,          \* the signals emitted so far, in order
    closeCount,       \* per stream, how many times it was closed
    masterAtStart,    \* master content when the run started
    appended,         \* the records written to the master file in this run
    outcome,          \* the classification of each line handled in this run
    stopSeen,         \* the loop was left by the break at line 130
    stopAt,           \* lines processed when stop() cleared is_running, -1 before
    stopLate,         \* that stop() came after the worker's check for the next line
    stopReturned,     \* the run's first stop() to return: was it before the worker's
                      \* first statement, and the lines begun by then
    run,              \* number of the current run
    prevOutcome,      \* outcome of the previous run
    prevComplete,     \* the previous run handled every target line
    line_arg,         \* a line given to validate_line on its own
    validated         \* what validate_line returned for it

fileVars == <<target, masterExists, masterContent, logText>>
flagVars == <<is_running, is_paused>>
counterVars == <<total_lines, processed_lines, valid_lines, rejected_lines>>
handleVars == <<log_files, master_fd, closeCount>>
cmdVars == <<cmd, cmdPc>>
historyVars == <<masterAtStart, appended, outcome, stopSeen, stopAt, stopLate,
                 stopReturned, run, prevOutcome, prevComplete>>

unitVars == <<line_arg, validated>>

vars == <<fileVars, flagVars, lock, counterVars, handleVars, existing_lines, line_num,
          pc, cmdVars, signals, historyVars, unitVars>>

Streams == Reasons \cup {"master"}

Signal(kind, t, p, v, r) ==
    [sig |-> kind, total |-> t, processed |-> p, valid |-> v, rejected |-> r]

ProgressSignal(t, p, v, r) == Signal("progress", t, p, v, r)
CompleteSignal == Signal("complete", 0, 0, 0, 0)
ErrorSignal == Signal("error", 0, 0, 0, 0)

\* FileProcessor.__init__ : the fields of a new processor.
NewProcessor ==
    /\ is_running = FALSE
    /\ is_paused = FALSE
    /\ lock = "free"
    /\ total_lines = 0
    /\ processed_lines = 0
    /\ valid_lines = 0
    /\ rejected_lines = 0
    /\ log_files = [r \in Reasons |-> "none"]

NoStop == 0 - 1

\* No stop() has returned in this run.
NotStopped == [early |-> FALSE, lines |-> NoStop]

NotValidated == [ok |-> FALSE, reason |-> "none", line |-> <<>>]

\* The state when start_processing has made the processor and started the
\* worker thread, over the given files.
Started ==
    /\ logText = [r \in Reasons |-> <<>>]
    /\ NewProcessor
    /\ master_fd = "none"
    /\ existing_lines = {}
    /\ line_num = 0
    /\ pc = "begin"
    /\ cmd = "none"
    /\ cmdPc = "idle"
    /\ signals = <<>>
    /\ closeCount = [s \in Streams |-> 0]
    /\ masterAtStart = masterContent
    /\ appended = <<>>
    /\ outcome = <<>>
    /\ stopSeen = FALSE
    /\ stopAt = NoStop
    /\ stopLate = FALSE
    /\ stopReturned = NotStopped
    /\ run = 1
    /\ prevOutcome = <<>>
    /\ prevComplete = FALSE

Init ==
    /\ target \in TargetFiles
    /\ masterExists \in BOOLEAN
    /\ masterContent \in (IF masterExists THEN MasterFiles ELSE {<<>>})
    /\ Started
    /\ line_arg = <<>>
    /\ validated = NotValidated

(* ---------------------------- helpers of process_files ----------------- *)

Range(f) == { f[i] : i \in DOMAIN f }

\* The lines the loop of line 124 iterates over.
TargetLines == ReadLines(target)

\* Lines 112-115: the dedup set read from the master file.
Preload(exists, content) ==
    IF exists THEN { Strip(l) : l \in Range(ReadLines(content)) } ELSE {}

\* An open in mode 'w', which empties the file.
OpenTruncating(content) == <<>>

\* Line 118: opening in mode 'a' keeps the content (and creates a missing file).
OpenForAppend(content) == content

\* Line 145: master_fd.write(clean_line + '\n') on a handle in append mode.
WriteRecord(content, clean_line) == content \o clean_line \o <<NL>>

\* A log_rejection that writes every entry to the first log.
log_rejectionMisrouted(logs, handles, reason, n, content) ==
    IF reason \in Reasons /\ handles[reason] # "none"
    THEN [logs EXCEPT ![LogReasons[1]] = Append(@, [num |-> n, text |-> content])]
    ELSE logs

\* Lines 91-94: log_rejection writes "Line <n>: <content>" to the reason's log.
log_rejection(logs, handles, reason, n, content) ==
    IF reason \in Reasons /\ handles[reason] # "none"
    THEN [logs EXCEPT ![reason] = Append(@, [num |-> n, text |-> content])]
    ELSE logs

\* Line 140: the duplicate check.
IsDuplicate(clean_line, existing) == clean_line \in existing

\* A classification that looks the line up in the dedup set first.
ClassifyDupFirst(v, existing) ==
    IF IsDuplicate(v.line, existing) THEN "Duplicate"
    ELSE IF v.ok THEN "Valid" ELSE v.reason

\* Lines 138-152: the duplicate check is made for a valid line only.
Classify(v, existing) ==
    IF v.ok
    THEN IF IsDuplicate(v.line, existing) THEN "Duplicate" ELSE "Valid"
    ELSE v.reason

\* A handler that does not remember the record it accepted.
AddExistingForgets(existing, clean_line) == existing

\* Line 147: an accepted record joins the dedup set.
AddExisting(existing, clean_line) == existing \cup {clean_line}

\* A handler that forgets to count a duplicate.
CountedDupUncounted(ok, dup, valid, rejected) ==
    IF ok /\ ~dup
    THEN [valid |-> valid + 1, rejected |-> rejected]
    ELSE IF dup
         THEN [valid |-> valid, rejected |-> rejected]
         ELSE [valid |-> valid, rejected |-> rejected + 1]

\* Lines 138-152: exactly one of the two counters is incremented.
Counted(ok, dup, valid, rejected) ==
    IF ok /\ ~dup
    THEN [valid |-> valid + 1, rejected |-> rejected]
    ELSE [valid |-> valid, rejected |-> rejected + 1]

\* A throttle that lets only the last line through.
ShouldEmitLastOnly(n, total) == n = total

\* Line 158: the throttle of the progress signal.
ShouldEmit(n, total) == n % ProgressEvery = 0 \/ n = total

\* Lines 86-89: close_logs closes every stream initialize_logs opened.
close_logs(handles) ==
    [r \in Reasons |-> IF handles[r] = "none" THEN "none" ELSE "closed"]

(* ---------------------------- process_files ---------------------------- *)

\* Lines 98-102: the worker's first statement sets the flags under the lock.
pf_begin ==
    /\ pc = "begin"
    /\ lock = "free"
    /\ is_running' = TRUE
    /\ is_paused' = FALSE
    /\ pc' = "count"
    /\ UNCHANGED <<unitVars, fileVars, lock, counterVars, handleVars, existing_lines, line_num,
                   cmdVars, signals, historyVars>>

\* Lines 104-106: the pre-scan that counts the target's lines; open may raise.
pf_count ==
    /\ pc = "count"
    /\ \E ok \in BOOLEAN :
         IF ok
         THEN /\ total_lines' = Len(TargetLines)
              /\ pc' = "initialize_logs"
         ELSE /\ pc' = "except"
              /\ UNCHANGED total_lines
    /\ UNCHANGED <<unitVars, fileVars, flagVars, lock, processed_lines, valid_lines, rejected_lines,
                   handleVars, existing_lines, line_num, cmdVars, signals, historyVars>>

\* Lines 108-109 and 69-84: the logs are opened one after the other in mode 'w';
\* makedirs or the open of log k+1 may raise, leaving the first k open.
initialize_logs ==
    /\ pc = "initialize_logs"
    /\ \E k \in 0..Len(LogReasons) :
         /\ log_files' = [r \in Reasons |->
                            IF \E i \in 1..k : LogReasons[i] = r THEN "open" ELSE "none"]
         /\ logText' = [r \in Reasons |->
                            IF \E i \in 1..k : LogReasons[i] = r THEN <<>> ELSE logText[r]]
         /\ pc' = IF k = Len(LogReasons) THEN "preload" ELSE "except"
    /\ UNCHANGED <<unitVars, target, masterExists, masterContent, flagVars, lock, counterVars,
                   master_fd, closeCount, existing_lines, line_num, cmdVars, signals,
                   historyVars>>

\* Lines 111-115: the dedup set is read from the master file when it exists.
pf_preload ==
    /\ pc = "preload"
    /\ \E ok \in (IF masterExists THEN BOOLEAN ELSE {TRUE}) :
         IF ok
         THEN /\ existing_lines' = Preload(masterExists, masterContent)
              /\ pc' = "open_master"
         ELSE /\ pc' = "except"
              /\ UNCHANGED existing_lines
    /\ UNCHANGED <<unitVars, fileVars, flagVars, lock, counterVars, handleVars, line_num,
                   cmdVars, signals, historyVars>>

\* Lines 117-118: the master file is opened for appending.
pf_open_master ==
    /\ pc = "open_master"
    /\ \E ok \in BOOLEAN :
         IF ok
         THEN /\ master_fd' = "open"
              /\ masterExists' = TRUE
              /\ masterContent' = OpenForAppend(masterContent)
              /\ pc' = "open_target"
         ELSE /\ pc' = "except"
              /\ UNCHANGED <<unitVars, master_fd, masterExists, masterContent>>
    /\ UNCHANGED <<unitVars, target, logText, flagVars, lock, counterVars, log_files, closeCount,
                   existing_lines, line_num, cmdVars, signals, historyVars>>

\* Lines 120-122: the target file is opened again for the processing pass.
pf_open_target ==
    /\ pc = "open_target"
    /\ \E ok \in BOOLEAN :
         IF ok
         THEN /\ line_num' = 0
              /\ pc' = "next"
         ELSE /\ pc' = "except"
              /\ UNCHANGED line_num
    /\ UNCHANGED <<unitVars, fileVars, flagVars, lock, counterVars, handleVars, existing_lines,
                   cmdVars, signals, historyVars>>

\* Lines 124-125: the next line is read, or the file is exhausted.
pf_next ==
    /\ pc = "next"
    /\ IF line_num < Len(TargetLines)
       THEN /\ line_num' = line_num + 1
            /\ pc' = "lock"
       ELSE /\ pc' = "close"
            /\ UNCHANGED line_num
    /\ UNCHANGED <<unitVars, fileVars, flagVars, lock, counterVars, handleVars, existing_lines,
                   cmdVars, signals, historyVars>>

\* Line 128: with self.lock.
pf_lock ==
    /\ pc = "lock"
    /\ lock = "free"
    /\ lock' = "worker"
    /\ pc' = "check"
    /\ UNCHANGED <<unitVars, fileVars, flagVars, counterVars, handleVars, existing_lines, line_num,
                   cmdVars, signals, historyVars>>

\* A check that notes the stop but still handles the line it holds.
pf_checkLate ==
    /\ pc = "check"
    /\ IF ~is_running
       THEN /\ lock' = "free"
            /\ stopSeen' = TRUE
            /\ pc' = "handle"
       ELSE /\ pc' = "pause_test"
            /\ UNCHANGED <<lock, stopSeen>>
    /\ UNCHANGED <<unitVars, fileVars, flagVars, counterVars, handleVars, existing_lines,
                   line_num, cmdVars, signals, masterAtStart, appended, outcome, stopAt,
                   stopLate, stopReturned, run, prevOutcome, prevComplete>>

\* Lines 129-130: a cleared is_running leaves the loop (and the with block).
pf_check ==
    /\ pc = "check"
    /\ IF ~is_running
       THEN /\ lock' = "free"
            /\ stopSeen' = TRUE
            /\ pc' = "close"
       ELSE /\ pc' = "pause_test"
            /\ UNCHANGED <<unitVars, lock, stopSeen>>
    /\ UNCHANGED <<unitVars, fileVars, flagVars, counterVars, handleVars, existing_lines,
                   line_num, cmdVars, signals, masterAtStart, appended, outcome, stopAt,
                   stopLate, stopReturned, run, prevOutcome, prevComplete>>

\* Line 132: the test of the pause loop, made with the lock held; when it
\* fails the with block ends and the lock is released.
pf_pause_test ==
    /\ pc = "pause_test"
    /\ IF is_paused /\ is_running
       THEN /\ pc' = "pause_sleep"
            /\ UNCHANGED lock
       ELSE /\ lock' = "free"
            /\ pc' = "handle"
    /\ UNCHANGED <<unitVars, fileVars, flagVars, counterVars, handleVars, existing_lines, line_num,
                   cmdVars, signals, historyVars>>

\* A sleep that publishes a progress snapshot each time it wakes.
pf_pause_sleepPublishing ==
    /\ pc = "pause_sleep"
    /\ pc' = "pause_test"
    /\ signals' = Append(signals, ProgressSignal(total_lines, processed_lines, valid_lines,
                                                 rejected_lines))
    /\ UNCHANGED <<unitVars, fileVars, flagVars, lock, counterVars, handleVars, existing_lines,
                   line_num, cmdVars, historyVars>>

\* Line 133: time.sleep(0.1), still inside the with block.
pf_pause_sleep ==
    /\ pc = "pause_sleep"
    /\ pc' = "pause_test"
    /\ UNCHANGED <<unitVars, fileVars, flagVars, lock, counterVars, handleVars, existing_lines,
                   line_num, cmdVars, signals, historyVars>>

\* Lines 135-164: one line is validated, then appended or logged, the
\* counters are updated and the progress signal is emitted when due.
pf_handle ==
    /\ pc = "handle"
    /\ \E line \in {TargetLines[line_num]} : \E v \in {validate_line(line)} :
       LET reason == Classify(v, existing_lines)
           dup == reason = "Duplicate"
           n == Counted(v.ok, dup, valid_lines, rejected_lines)
       IN /\ IF reason = "Valid"
             THEN /\ masterContent' = WriteRecord(masterContent, v.line)
                  /\ existing_lines' = AddExisting(existing_lines, v.line)
                  /\ appended' = Append(appended, v.line)
                  /\ outcome' = Append(outcome, "Valid")
                  /\ UNCHANGED logText
             ELSE /\ logText' = log_rejection(logText, log_files, reason, line_num, v.line)
                  /\ outcome' = Append(outcome, reason)
                  /\ UNCHANGED <<masterContent, existing_lines, appended>>
          /\ valid_lines' = n.valid
          /\ rejected_lines' = n.rejected
          /\ processed_lines' = line_num
          /\ signals' = IF ShouldEmit(line_num, total_lines)
                        THEN Append(signals,
                                    ProgressSignal(total_lines, line_num, n.valid,
                                                   n.rejected))
                        ELSE signals
    /\ pc' = "next"
    /\ UNCHANGED <<unitVars, target, masterExists, flagVars, lock, total_lines, handleVars,
                   line_num, cmdVars, masterAtStart, stopSeen, stopAt, stopLate,
                   stopReturned, run, prevOutcome, prevComplete>>

\* Lines 166-168: the master handle and the logs are closed.
pf_close ==
    /\ pc = "close"
    /\ master_fd' = "closed"
    /\ log_files' = close_logs(log_files)
    /\ closeCount' = [s \in Streams |->
                        IF s = "master" \/ log_files[s] # "none"
                        THEN closeCount[s] + 1 ELSE closeCount[s]]
    /\ pc' = "final"
    /\ UNCHANGED <<unitVars, fileVars, flagVars, lock, counterVars, existing_lines, line_num,
                   cmdVars, signals, historyVars>>

\* A teardown that signals completion without the final snapshot.
pf_finalNoSnapshot ==
    /\ pc = "final"
    /\ signals' = Append(signals, CompleteSignal)
    /\ pc' = "finally"
    /\ UNCHANGED <<unitVars, fileVars, flagVars, lock, counterVars, handleVars, existing_lines,
                   line_num, cmdVars, historyVars>>

\* Lines 170-179: the final progress signal, then the completion signal.
pf_final ==
    /\ pc = "final"
    /\ signals' = signals \o
                    << ProgressSignal(total_lines, processed_lines, valid_lines,
                                      rejected_lines),
                       CompleteSignal >>
    /\ pc' = "finally"
    /\ UNCHANGED <<unitVars, fileVars, flagVars, lock, counterVars, handleVars, existing_lines,
                   line_num, cmdVars, historyVars>>

\* A handler that signals the error and then completion as well.
pf_exceptThenComplete ==
    /\ pc = "except"
    /\ signals' = signals \o <<ErrorSignal, CompleteSignal>>
    /\ pc' = "finally"
    /\ UNCHANGED <<unitVars, fileVars, flagVars, lock, counterVars, handleVars, existing_lines,
                   line_num, cmdVars, historyVars>>

\* Lines 181-182: an exception raised anywhere above ends in the error signal.
pf_except ==
    /\ pc = "except"
    /\ signals' = Append(signals, ErrorSignal)
    /\ pc' = "finally"
    /\ UNCHANGED <<unitVars, fileVars, flagVars, lock, counterVars, handleVars, existing_lines,
                   line_num, cmdVars, historyVars>>

\* Lines 184-186: is_running is cleared under the lock, the worker returns.
pf_finally ==
    /\ pc = "finally"
    /\ lock = "free"
    /\ is_running' = FALSE
    /\ pc' = "done"
    /\ UNCHANGED <<unitVars, fileVars, is_paused, lock, counterVars, handleVars, existing_lines,
                   line_num, cmdVars, signals, historyVars>>

\* The steps of a worker that is never paused.
pf_unpaused ==
    \/ pf_begin
    \/ pf_count
    \/ initialize_logs
    \/ pf_preload
    \/ pf_open_master
    \/ pf_open_target
    \/ pf_next
    \/ pf_lock
    \/ pf_check
    \/ pf_pause_test
    \/ pf_handle
    \/ pf_close
    \/ pf_final
    \/ pf_except
    \/ pf_finally

process_files == pf_unpaused \/ pf_pause_sleep

(* ---------------------------- commands --------------------------------- *)

\* A thread other than the worker enters pause(), resume() or stop(): it
\* reaches the method's "with self.lock".
call(c) ==
    /\ cmdPc = "idle"
    /\ pc # "done"
    /\ cmd' = c
    /\ cmdPc' = "waiting"
    /\ UNCHANGED <<unitVars, fileVars, flagVars, lock, counterVars, handleVars, existing_lines,
                   line_num, pc, signals, historyVars>>

call_pause == call("pause")
call_resume == call("resume")
call_stop == call("stop")

\* The body of a command: "with self.lock" is entered once the lock is free,
\* the flag is stored, the lock is released and the caller returns.
cmd_return(c) ==
    /\ cmdPc = "waiting"
    /\ cmd = c
    /\ lock = "free"
    /\ cmd' = "none"
    /\ cmdPc' = "idle"
    /\ UNCHANGED <<unitVars, fileVars, lock, counterVars, handleVars, existing_lines,
                   line_num, pc, signals, masterAtStart, appended, outcome, stopSeen, run,
                   prevOutcome, prevComplete>>

\* A pause() that flips the flag instead of setting it.
pauseToggling ==
    /\ cmd_return("pause")
    /\ is_paused' = ~is_paused
    /\ UNCHANGED <<is_running, stopAt, stopLate, stopReturned>>

\* Lines 188-191.
pause ==
    /\ cmd_return("pause")
    /\ is_paused' = TRUE
    /\ UNCHANGED <<is_running, stopAt, stopLate, stopReturned>>

\* Lines 193-196.
resume ==
    /\ cmd_return("resume")
    /\ is_paused' = FALSE
    /\ UNCHANGED <<is_running, stopAt, stopLate, stopReturned>>

\* Lines 198-201. The first stop() that clears the flag of a worker that has
\* set it is recorded with the number of lines processed by then.
stop_store ==
    /\ cmd_return("stop")
    /\ is_running' = FALSE
    /\ UNCHANGED is_paused
    /\ IF is_running /\ pc # "begin" /\ stopAt = NoStop
       THEN /\ stopAt' = processed_lines
            /\ stopLate' = (pc = "handle")
       ELSE UNCHANGED <<stopAt, stopLate>>

stop ==
    /\ stop_store
    /\ UNCHANGED stopReturned

\* stop(), with the first call to return in a run noted in stopReturned.
stop_noted ==
    /\ stop_store
    /\ stopReturned' = IF stopReturned = NotStopped
                       THEN [early |-> (pc = "begin"),
                             lines |-> IF pc = "handle" THEN line_num ELSE processed_lines]
                       ELSE stopReturned

commands ==
    \/ call_pause
    \/ call_resume
    \/ call_stop
    \/ pause
    \/ resume
    \/ stop

(* ---------------------------- toggle_pause ----------------------------- *)

\* Lines 448-451: the window's thread enters toggle_pause with a processor
\* in place and reaches "with self.processor.lock".
call_toggle == call("toggle")

\* Line 451: the lock, a threading.Lock, is acquired by toggle_pause itself.
toggle_lock ==
    /\ cmd = "toggle"
    /\ cmdPc = "waiting"
    /\ lock = "free"
    /\ lock' = "caller"
    /\ cmdPc' = "locked"
    /\ UNCHANGED <<unitVars, fileVars, flagVars, counterVars, handleVars, existing_lines,
                   line_num, pc, cmd, signals, historyVars>>

\* Lines 452-457: with the lock held, resume() or pause() is called and
\* reaches its own "with self.lock" (lines 195 and 190). The lock is not
\* reentrant: that statement is passed, by the command's own step, only when
\* the lock is free.
toggle_branch ==
    /\ cmd = "toggle"
    /\ cmdPc = "locked"
    /\ cmd' = IF is_paused THEN "resume" ELSE "pause"
    /\ cmdPc' = "waiting"
    /\ UNCHANGED <<unitVars, fileVars, flagVars, lock, counterVars, handleVars, existing_lines,
                   line_num, pc, signals, historyVars>>

toggle_pause ==
    \/ call_toggle
    \/ toggle_lock
    \/ toggle_branch

(* ---------------------------- start_processing ------------------------- *)

\* The run ended by handling every line of the target file.
RunComplete ==
    /\ pc = "done"
    /\ ~stopSeen
    /\ signals # <<>>
    /\ signals[Len(signals)] = CompleteSignal

\* Lines 416-432: once a run has ended, start makes a new processor over the
\* same files, with a new logs folder, and starts a new worker.
start_processing ==
    /\ pc = "done"
    /\ cmdPc = "idle"
    /\ run < MaxRuns
    /\ is_running' = FALSE
    /\ is_paused' = FALSE
    /\ total_lines' = 0
    /\ processed_lines' = 0
    /\ valid_lines' = 0
    /\ rejected_lines' = 0
    /\ log_files' = [r \in Reasons |-> "none"]
    /\ logText' = [r \in Reasons |-> <<>>]
    /\ master_fd' = "none"
    /\ closeCount' = [s \in Streams |-> 0]
    /\ existing_lines' = {}
    /\ line_num' = 0
    /\ signals' = <<>>
    /\ pc' = "begin"
    /\ masterAtStart' = masterContent
    /\ appended' = <<>>
    /\ outcome' = <<>>
    /\ stopSeen' = FALSE
    /\ stopAt' = NoStop
    /\ stopLate' = FALSE
    /\ stopReturned' = NotStopped
    /\ run' = run + 1
    /\ prevOutcome' = outcome
    /\ prevComplete' = RunComplete
    /\ UNCHANGED <<unitVars, target, masterExists, masterContent, lock, cmdVars>>

(* ---------------------------- validate_line on its own ------------------ *)

\* Lines 29-44: validate_line is called with one line.
validate_call ==
    /\ validated = NotValidated
    /\ validated' = validate_line(line_arg)
    /\ UNCHANGED <<line_arg, fileVars, flagVars, lock, counterVars, handleVars,
                   existing_lines, line_num, pc, cmdVars, signals, historyVars>>

(* ---------------------------- specifications --------------------------- *)

\* One run of the worker with a second thread issuing commands.
Next == process_files \/ commands

Spec == Init /\ [][Next]_vars

\* A run over a target file of MaxTargetLines equal lines and no master file,
\* with the scheduling a run relies on: the worker thread keeps running, and
\* a caller that finds the lock free again and again gets it.
InitFair ==
    /\ Init
    /\ ~masterExists
    /\ target \in { JoinLines([i \in 1..MaxTargetLines |-> b]) : b \in LineBodies }

FairSpec ==
    /\ InitFair
    /\ [][Next]_vars
    /\ WF_vars(process_files)
    /\ SF_vars(pause \/ resume \/ stop)

\* The run of Spec, with the return of its first stop() noted.
NextStop ==
    \/ process_files
    \/ call_pause
    \/ call_resume
    \/ call_stop
    \/ pause
    \/ resume
    \/ stop_noted

SpecStop == Init /\ [][NextStop]_vars

\* A run during which the window's thread also uses toggle_pause.
NextToggle == process_files \/ commands \/ toggle_pause

SpecToggle == InitFair /\ [][NextToggle]_vars

\* Runs one after the other over the same files. No command is issued, so
\* is_paused stays false and the sleep of line 133 is never reached.
NextTwice == pf_unpaused \/ start_processing

SpecTwice == Init /\ [][NextTwice]_vars

\* validate_line applied to every line of up to MaxLineLen characters.
InitValidate ==
    /\ target = <<>>
    /\ masterExists = FALSE
    /\ masterContent = <<>>
    /\ Started
    /\ line_arg \in Strings(MaxLineLen) \cup LineBodies \cup { b \o <<NL>> : b \in LineBodies }
    /\ validated = NotValidated

NextValidate == validate_call

SpecValidate == InitValidate /\ [][NextValidate]_vars

\* A run, left alone, over a target file of ProgressEvery lines or a few
\* more, all with the same body, and no master file.
InitLong ==
    /\ target \in { JoinLines([i \in 1..n |-> b]) :
                       n \in ProgressEvery..MaxLongLines,
                       b \in { <<"a", ":", "b">>, <<"a", ":", "b", ":", "c">> } }
    /\ masterExists = FALSE
    /\ masterContent = <<>>
    /\ Started
    /\ line_arg = <<>>
    /\ validated = NotValidated

NextLong == pf_unpaused

SpecLong == InitLong /\ [][NextLong]_vars

(* ---------------------------- reference definitions -------------------- *)

\* The classes a line can fall into.
Classes == Reasons \cup {"Valid"}

\* s without its leading and trailing whitespace, said without recursion.
RefStrip(s) ==
    LET keep == { i \in 1..Len(s) : s[i] \notin Whitespace } IN
    IF keep = {} THEN <<>>
    ELSE SubSeq(s, CHOOSE i \in keep : \A j \in 1..(i - 1) : s[j] \in Whitespace,
                   CHOOSE i \in keep : \A j \in (i + 1)..Len(s) : s[j] \in Whitespace)

ColonCount(s) == Cardinality({ i \in 1..Len(s) : s[i] = ":" })

\* The reference rule for one line.
RefValidate(line) ==
    LET s == RefStrip(line) IN
    IF s = <<>> THEN [ok |-> FALSE, reason |-> "Empty Line", line |-> s]
    ELSE IF ColonCount(s) < 2
         THEN [ok |-> FALSE, reason |-> "Not Enough Parts", line |-> s]
         ELSE [ok |-> TRUE, reason |-> "Valid", line |-> s]

\* The stripped lines of the master file as it was when the run started.
MasterRecords == { RefStrip(l) : l \in Range(ReadLines(masterAtStart)) }

\* The class of target line i in a pass over the target file.
RefOutcomeAt(i) ==
    LET v == RefValidate(TargetLines[i]) IN
    IF ~v.ok THEN v.reason
    ELSE IF \/ v.line \in MasterRecords
            \/ \E j \in 1..(i - 1) : RefStrip(TargetLines[j]) = v.line
         THEN "Duplicate"
         ELSE "Valid"

RefOutcomes(n) == [i \in 1..n |-> RefOutcomeAt(i)]

RECURSIVE RefAppended(_)
\* The records a pass over the first n target lines appends, in order.
RefAppended(n) ==
    IF n = 0 THEN <<>>
    ELSE IF RefOutcomeAt(n) = "Valid"
         THEN Append(RefAppended(n - 1), RefStrip(TargetLines[n]))
         ELSE RefAppended(n - 1)

RECURSIVE RefLogNums(_, _)
\* The numbers of the first n target lines that belong in the log of reason.
RefLogNums(reason, n) ==
    IF n = 0 THEN <<>>
    ELSE IF RefOutcomeAt(n) = reason
         THEN Append(RefLogNums(reason, n - 1), n)
         ELSE RefLogNums(reason, n - 1)

LogNums(reason) == [k \in 1..Len(logText[reason]) |-> logText[reason][k].num]

RECURSIVE Flatten(_)
\* The text of records written one per line.
Flatten(records) ==
    IF records = <<>> THEN <<>>
    ELSE Head(records) \o <<NL>> \o Flatten(Tail(records))

EntriesFor(reason, i) ==
    Cardinality({ k \in 1..Len(logText[reason]) : logText[reason][k].num = i })

ProgressSignals == { i \in 1..Len(signals) : signals[i].sig = "progress" }

(* ---------------------------- claims ----------------------------------- *)

\* C1: at every line boundary, in every progress snapshot published and at
\* the end of the run, processed_lines = valid_lines + rejected_lines and
\* processed_lines <= total_lines.
C1_CountersConsistent ==
    /\ processed_lines = valid_lines + rejected_lines
    /\ processed_lines <= total_lines
    /\ \A i \in ProgressSignals :
         /\ signals[i].processed = signals[i].valid + signals[i].rejected
         /\ signals[i].processed <= signals[i].total

\* A finished run of two lines, one accepted and one rejected, whose
\* snapshot was published.
C1_Witness ==
    /\ pc = "done"
    /\ processed_lines = 2 /\ valid_lines = 1 /\ rejected_lines = 1
    /\ \E i \in ProgressSignals : signals[i].processed = 2

\* C2: every processed line has exactly one class and exactly one effect: a
\* Valid line one append to the master file and no log entry, a rejected line
\* one entry in the log of its reason and none elsewhere; so the appends
\* number valid_lines and the log entries rejected_lines.
C2_OneEffectPerLine ==
    /\ Len(outcome) = processed_lines
    /\ \A i \in 1..Len(outcome) :
         /\ outcome[i] \in Classes
         /\ \A r \in Reasons : EntriesFor(r, i) = IF outcome[i] = r THEN 1 ELSE 0
    /\ \A r \in Reasons : \A k \in 1..Len(logText[r]) :
         logText[r][k].num \in 1..processed_lines
    /\ Len(appended) = Cardinality({ i \in 1..Len(outcome) : outcome[i] = "Valid" })
    /\ masterContent = masterAtStart \o Flatten(appended)
    /\ Len(appended) = valid_lines
    /\ Len(logText["Empty Line"]) + Len(logText["Not Enough Parts"])
         + Len(logText["Duplicate"]) = rejected_lines

\* Two lines processed, one accepted and one logged as a duplicate.
C2_Witness ==
    /\ processed_lines = 2
    /\ \E i, j \in 1..Len(outcome) : outcome[i] = "Valid" /\ outcome[j] = "Duplicate"
    /\ Len(logText["Duplicate"]) = 1

\* C3: when stop() clears is_running after N lines were processed and the
\* worker sees it at its next check, the run ends with processed_lines = N,
\* the records appended are the accepted records of the first N lines in
\* order, and later lines have touched neither the master file nor a log.
C3_StopKeepsFirstN ==
    (stopSeen /\ ~stopLate) =>
        /\ stopAt # NoStop
        /\ processed_lines = stopAt
        /\ appended = RefAppended(stopAt)
        /\ masterContent = masterAtStart \o Flatten(RefAppended(stopAt))
        /\ \A r \in Reasons : LogNums(r) = RefLogNums(r, stopAt)

\* A run stopped after its first line, which was accepted, ended before a
\* second line that would have been accepted too.
C3_Witness ==
    /\ pc = "done"
    /\ stopSeen /\ ~stopLate /\ stopAt = 1
    /\ Len(appended) = 1
    /\ Len(TargetLines) = 2
    /\ RefOutcomeAt(2) = "Valid"

\* The worker sleeps in its pause loop with the lock held while a caller
\* waits for the lock.
CallerBlocked ==
    /\ cmdPc = "waiting"
    /\ lock = "worker"
    /\ pc \in {"pause_test", "pause_sleep"}
    /\ is_paused /\ is_running

\* Once a caller is blocked it stays blocked: no step of either thread
\* changes a flag or releases the lock.
BlockedForever == [][CallerBlocked => CallerBlocked']_vars

C5_CommandsReturn == (cmdPc = "waiting") ~> (cmdPc = "idle")

\* C6: a complete pass over the target against the master file left by a
\* complete pass over the same target accepts nothing, and classifies as
\* Duplicate every line the first pass classified Valid or Duplicate.
C6_SecondPassAcceptsNothing ==
    (run > 1 /\ prevComplete /\ RunComplete) =>
        /\ valid_lines = 0
        /\ \A i \in 1..Len(prevOutcome) :
             prevOutcome[i] \in {"Valid", "Duplicate"} => outcome[i] = "Duplicate"

\* The lines accepted so far, by number.
AcceptedNums == { i \in 1..Len(outcome) : outcome[i] = "Valid" }

KthAccepted(k) ==
    CHOOSE i \in AcceptedNums : Cardinality({ j \in AcceptedNums : j <= i }) = k

\* C7: in every state of a run the master content of the run's start is a
\* prefix of the current content, and what follows it is the accepted
\* records, one per line, in the order of the target lines they came from.
C7_MasterAppendOnly ==
    /\ Len(masterAtStart) <= Len(masterContent)
    /\ SubSeq(masterContent, 1, Len(masterAtStart)) = masterAtStart
    /\ SubSeq(masterContent, Len(masterAtStart) + 1, Len(masterContent))
         = Flatten(appended)
    /\ Len(appended) = Cardinality(AcceptedNums)
    /\ \A k \in 1..Len(appended) : appended[k] = RefStrip(TargetLines[KthAccepted(k)])

\* Two different records appended after the content of an existing master.
C7_Witness ==
    /\ masterAtStart # <<>>
    /\ Len(appended) = 2
    /\ appended[1] # appended[2]
    /\ Len(masterContent) > Len(masterAtStart)

TerminalSignalled ==
    \E i \in 1..Len(signals) : signals[i].sig \in {"complete", "error"}

\* C8: when the run's terminal signal has been emitted, the master handle
\* and every log stream that was opened have been closed, each exactly once.
C8_ClosedBeforeTerminalSignal ==
    TerminalSignalled =>
        /\ master_fd # "open"
        /\ \A r \in Reasons : log_files[r] # "open"
        /\ closeCount["master"] = IF master_fd = "none" THEN 0 ELSE 1
        /\ \A r \in Reasons : closeCount[r] = IF log_files[r] = "none" THEN 0 ELSE 1

\* C9: validate_line returns what the reference rule gives for the line:
\* Empty Line for a blank line, Not Enough Parts for fewer than two colons,
\* else Valid with the whole stripped line.
C9_ValidateLineRule ==
    validated # NotValidated => validated = RefValidate(line_arg)

\* The line "a:b:c:d" was accepted whole.
C9_Witness ==
    /\ line_arg = <<"a", ":", "b", ":", "c", ":", "d">>
    /\ validated = [ok |-> TRUE, reason |-> "Valid", line |-> line_arg]

\* C10: a valid line whose stripped form is a stripped line of the master
\* file of the run's start, or the stripped form of a line accepted earlier
\* in the run, is a Duplicate; the records appended in a run are pairwise
\* distinct and none is a stripped line of that master file.
C10_NoDuplicateAccepted ==
    /\ \A i, j \in 1..Len(appended) : i # j => appended[i] # appended[j]
    /\ \A i \in 1..Len(appended) : appended[i] \notin MasterRecords
    /\ \A i \in 1..Len(outcome) :
         LET v == RefValidate(TargetLines[i]) IN
         (/\ v.ok
          /\ \/ v.line \in MasterRecords
             \/ \E j \in 1..(i - 1) :
                  outcome[j] = "Valid" /\ RefStrip(TargetLines[j]) = v.line)
            => outcome[i] = "Duplicate" /\ EntriesFor("Duplicate", i) = 1

\* A line that differs only by blanks from a line accepted before it in the
\* same run was logged as a duplicate.
C10_Witness ==
    /\ Len(outcome) = 2
    /\ outcome[1] = "Valid" /\ outcome[2] = "Duplicate"
    /\ TargetLines[1] # TargetLines[2]
    /\ Len(appended) = 1

\* The progress snapshots published inside the loop: every progress signal
\* but the one of lines 171-176, which the completion signal follows.
LoopSignals ==
    { i \in ProgressSignals : ~(i < Len(signals) /\ signals[i + 1].sig = "complete") }

\* The number of lines among the first k that were accepted.
ValidAfter(k) == Cardinality({ i \in 1..k : outcome[i] = "Valid" })

\* C11: inside the loop a snapshot is published after line k exactly when
\* k mod 100 = 0 or k = total_lines, and it carries total_lines, k and the
\* valid and rejected counts as they stand after line k.
C11_ProgressThrottle ==
    /\ \A k \in 1..processed_lines :
         Cardinality({ i \in LoopSignals : signals[i].processed = k })
           = IF k % 100 = 0 \/ k = total_lines THEN 1 ELSE 0
    /\ \A i \in LoopSignals :
         /\ signals[i].processed \in 1..processed_lines
         /\ signals[i] = ProgressSignal(total_lines, signals[i].processed,
                                        ValidAfter(signals[i].processed),
                                        signals[i].processed
                                          - ValidAfter(signals[i].processed))

\* A target of more than 100 lines: line 100 was followed by a snapshot
\* though it is not the last, and the last line by another.
C11_Witness ==
    /\ total_lines > 100
    /\ processed_lines = total_lines
    /\ \E i, j \in LoopSignals :
         signals[i].processed = 100 /\ signals[j].processed = total_lines
    /\ Cardinality(LoopSignals) = 2

AllClosed ==
    /\ master_fd = "closed"
    /\ \A r \in Reasons : log_files[r] = "closed"

ErrorSignalled == \E i \in 1..Len(signals) : signals[i].sig = "error"

CompleteSignalled == \E i \in 1..Len(signals) : signals[i].sig = "complete"

\* The snapshot of the counters as they stand.
CurrentSnapshot ==
    ProgressSignal(total_lines, processed_lines, valid_lines, rejected_lines)

\* C12: a run that ends by exhausting the target or by a stop publishes,
\* after the master file and the logs are closed and right before the
\* completion signal, a snapshot equal to the final counters; after
\* exhaustion that snapshot has processed = total.
C12_FinalSnapshotThenComplete ==
    /\ [](/\ (pc \in {"finally", "done"} /\ ~ErrorSignalled) => CompleteSignalled
          /\ CompleteSignalled =>
               /\ Len(signals) >= 2
               /\ signals[Len(signals)] = CompleteSignal
               /\ \A i \in 1..(Len(signals) - 1) : signals[i].sig = "progress"
               /\ signals[Len(signals) - 1] = CurrentSnapshot
               /\ processed_lines = Len(outcome)
               /\ ~stopSeen => signals[Len(signals) - 1].processed = signals[Len(signals) - 1].total
               /\ ~stopSeen => processed_lines = Len(TargetLines))
    /\ [][(~CompleteSignalled /\ CompleteSignalled') => AllClosed]_vars

\* A run stopped after one of its two lines has published the snapshot of
\* one processed line and then the completion signal.
C12_Witness ==
    /\ pc = "done"
    /\ stopSeen
    /\ CompleteSignalled
    /\ total_lines = 2
    /\ signals[Len(signals) - 1] = ProgressSignal(2, 1, valid_lines, rejected_lines)

\* A line as read from the file, without the newline that ends it.
Chomp(line) ==
    IF line # <<>> /\ line[Len(line)] = NL THEN SubSeq(line, 1, Len(line) - 1) ELSE line

\* Within each log the entries are in strictly increasing order of line
\* number, each number being that of a target line handled so far.
LogEntriesOrdered ==
    \A r \in Reasons :
        /\ \A k \in 1..Len(logText[r]) : logText[r][k].num \in 1..processed_lines
        /\ \A j, k \in 1..Len(logText[r]) : j < k => logText[r][j].num < logText[r][k].num

\* C13: every entry of a rejection log is "Line <n>: <text>" with n the
\* 1-based number of the rejected target line and text the line as read
\* from the target file, blanks included; each log is in increasing order
\* of n.
C13_LogEntriesOriginalText ==
    /\ LogEntriesOrdered
    /\ \A r \in Reasons : \A k \in 1..Len(logText[r]) :
         logText[r][k].text \in { TargetLines[logText[r][k].num],
                                  Chomp(TargetLines[logText[r][k].num]) }

\* The worker has seen is_paused at a line boundary and sleeps in the loop
\* of lines 132-133, holding line line_num.
Paused == pc = "pause_sleep" /\ is_paused /\ is_running

\* C14: when stop() is called while the worker is paused, the worker leaves
\* the paused wait, handles neither the line it holds nor a later one, and
\* ends with the teardown of a normal completion.
C14_StopWhilePausedEnds ==
    (Paused /\ cmd = "stop" /\ cmdPc = "waiting")
        ~> /\ pc = "done"
           /\ processed_lines < line_num
           /\ AllClosed
           /\ CompleteSignalled

\* C15: once a stop() called after the worker thread was started has
\* returned, the worker begins no further line: it handles at most the line
\* that was already past its check.
C15_StopNeverLost ==
    stopReturned # NotStopped => processed_lines <= stopReturned.lines

\* The same for every stop() that returned after the worker's first statement.
StopAfterBeginKept ==
    (stopReturned # NotStopped /\ ~stopReturned.early)
        => processed_lines <= stopReturned.lines

\* The worker is in its paused wait: it sleeps, or is about to test the
\* flags that will send it back to sleep.
InPausedWait ==
    \/ pc = "pause_sleep"
    \/ pc = "pause_test" /\ is_paused /\ is_running

\* C16: while the worker is in its paused wait no step changes a counter,
\* the master file, the dedup set or a log, or publishes a snapshot, and
\* the line it holds stays unhandled.
C16_PausedChangesNothing ==
    /\ [](InPausedWait => processed_lines = line_num - 1 /\ Len(outcome) = line_num - 1)
    /\ [][InPausedWait =>
             UNCHANGED <<counterVars, masterContent, masterExists, existing_lines,
                         logText, signals, outcome, appended>>]_vars

\* The worker sleeps between the first line, which it accepted, and the
\* second, while a caller waits.
C16_Witness ==
    /\ Paused
    /\ processed_lines = 1 /\ valid_lines = 1
    /\ line_num = 2
    /\ cmdPc = "waiting"

TerminalSignals ==
    { i \in 1..Len(signals) : signals[i].sig \in {"complete", "error"} }

\* C17: a run emits one terminal signal, the completion signal or the error
\* signal, never both; nothing is emitted after it; a worker that has
\* returned has emitted it and has left is_running false.
C17_OneTerminalSignal ==
    /\ Cardinality(TerminalSignals) <= 1
    /\ \A i \in TerminalSignals : i = Len(signals)
    /\ pc \in {"finally", "done"} <=> Cardinality(TerminalSignals) = 1
    /\ pc = "done" => ~is_running

\* A worker that keeps being scheduled returns, having emitted its terminal
\* signal, unless it stays in its paused wait.
ReturnsUnlessPaused == <>[](pc = "done" \/ InPausedWait)

\* A run that failed after opening its logs ended with the error signal
\* alone.
C17_Witness ==
    /\ pc = "done"
    /\ signals = <<ErrorSignal>>
    /\ \E r \in Reasons : log_files[r] # "none"
    /\ ~is_running

\* C18: a line whose stripped form is empty is an Empty Line, one with
\* fewer than two colons is Not Enough Parts, whatever the dedup set holds:
\* it is never logged as Duplicate and does not change the dedup set, which
\* after each line handled holds the stripped master lines and the records
\* accepted so far.
C18_StructuralBeforeDuplicate ==
    /\ \A i \in 1..Len(outcome) :
         LET s == RefStrip(TargetLines[i]) IN
         /\ s = <<>> => outcome[i] = "Empty Line"
         /\ (s # <<>> /\ ColonCount(s) < 2) => outcome[i] = "Not Enough Parts"
         /\ (s = <<>> \/ ColonCount(s) < 2) =>
               /\ EntriesFor("Duplicate", i) = 0
               /\ EntriesFor(outcome[i], i) = 1
    /\ pc \in {"next", "close"} => existing_lines = MasterRecords \cup Range(appended)

\* A blank line and a line of two parts were rejected for their structure
\* although the dedup set, read from the master file, holds the stripped
\* form of both.
C18_Witness ==
    /\ outcome = <<"Empty Line", "Not Enough Parts">>
    /\ <<>> \in existing_lines
    /\ RefStrip(TargetLines[2]) \in existing_lines
    /\ Len(logText["Duplicate"]) = 0

\* The step in which a call of command c returns.
Returns(c) == cmd = c /\ cmdPc = "waiting" /\ cmdPc' = "idle"

\* What a command must leave alone besides the two flags.
CommandFrame ==
    UNCHANGED <<fileVars, lock, counterVars, handleVars, existing_lines, line_num, pc,
                signals, appended, outcome>>

\* C19: pause() leaves is_paused true, resume() leaves it false, stop()
\* leaves is_running false, whatever the flag was before (so a second call
\* in a row changes nothing), and none of them changes the other flag, a
\* counter, the master file, a log or anything else of the processor.
C19_CommandsSetOwnFlagOnly ==
    [][/\ Returns("pause") => is_paused' /\ UNCHANGED is_running /\ CommandFrame
       /\ Returns("resume") => ~is_paused' /\ UNCHANGED is_running /\ CommandFrame
       /\ Returns("stop") => ~is_running' /\ UNCHANGED is_paused /\ CommandFrame]_vars

\* pause() has been applied and a second pause() is about to be, with one
\* line processed.
C19_Witness ==
    /\ is_paused
    /\ cmd = "pause" /\ cmdPc = "waiting"
    /\ lock = "free"
    /\ processed_lines = 1

\* The thread that called toggle_pause holds the lock and waits for it
\* inside pause() or resume().
SelfBlocked == lock = "caller" /\ cmdPc = "waiting" /\ cmd \in {"pause", "resume"}

\* A thread blocked in this way stays blocked, and the flag stays as it was.
SelfBlockedForever == [][SelfBlocked => (SelfBlocked' /\ UNCHANGED is_paused)]_vars

\* C20: a thread in toggle_pause never waits for the processor's lock while
\* holding it: the call goes through pause() or resume() and returns.
C20_ToggleNeverBlocks == ~SelfBlocked

====
